---------------------------- MODULE Spec2Model ----------------------------
(***************************************************************************)
(* A model of vaults.py: the Vault key-value store over one SQLite table   *)
(* dict(key BLOB PRIMARY KEY, value BLOB), its codec (_serialize /         *)
(* _deserialize) and its optional re-entrant lock.                         *)
(*                                                                         *)
(* Spec         one caller, every Vault method one atomic action           *)
(* SpecShapes   one caller writing and reading every value shape           *)
(* SpecBulk     one caller of pop_many, has_keys and popitem               *)
(* SpecShortBulk  one caller of the bulk operations on at most one key     *)
(* SpecSession  one caller whose previous call is remembered               *)
(* SpecIter     one caller holding a listing while it changes the store    *)
(* SpecProtocol one caller of setdefault and update                        *)
(* SpecReads    one caller of every read operation                         *)
(* SpecCodec    _serialize and _deserialize applied to values and bytes    *)
(* SpecThreads  several threads sharing one handle, one step per statement *)
(* SpecThreadsFair  SpecThreads with every thread scheduled                *)
(* SpecRemovers several threads removing entries through one handle        *)
(***************************************************************************)
EXTENDS Integers, Sequences, FiniteSets, TLC

VARIABLES
    MSGPACK_AVAILABLE,  \* vaults.py:9-13, fixed at import time
    dict,               \* the rows of table dict: serialized key -> serialized value
    path_exists,        \* os.path.exists(self.db_path)
    connection_open,    \* self._connection has not been closed
    thread_safe,        \* self._thread_safe (self._lock is an RLock iff TRUE)
    written,            \* history: Python key -> the Python value last written and not removed since
    last,               \* history: the last completed call of the single caller
    before,             \* history, SpecSession: the call before last: <<op, res, key, value>>
    it,                 \* SpecIter: the listing or iterator the caller is holding
    worker,             \* SpecThreads: the target function of each thread
    pc,                 \* SpecThreads: the position of each thread in its current call
    cur,                \* SpecThreads: the arguments and locals of each thread's current call
    progress,           \* SpecThreads: how many calls each thread has finished
    lock_owner,         \* SpecThreads: the thread holding self._lock, or NoThread
    executing,          \* SpecThreads: the threads inside a cursor.execute on the connection
    raced,              \* SpecThreads: the threads whose current statement overlapped another one
    errors              \* SpecThreads: the exceptions each thread's calls have raised

vars == <<MSGPACK_AVAILABLE, dict, path_exists, connection_open, thread_safe, written, last,
          before, it, worker, pc, cur, progress, lock_owner, executing, raced, errors>>

storeVars == <<dict, path_exists, connection_open>>
threadVars == <<worker, pc, cur, progress, lock_owner, executing, raced, errors>>

-----------------------------------------------------------------------------
(* Bounds of the model *)

MaxBatch == 2       \* longest argument of put_many / get_many
NumThreads == 2     \* threads sharing the handle in SpecThreads
RangeSize == 2      \* keys each inserting thread owns; calls a mixed thread makes

-----------------------------------------------------------------------------
(* Python values: <<type, payload>> *)

PyNone == <<"none">>
PyInt(n) == <<"int", n>>
PyFloat(s) == <<"float", s>>
PyStr(s) == <<"str", s>>
PyBool(b) == <<"bool", b>>
PyBytes(s) == <<"bytes", s>>
PyList(s) == <<"list", s>>
PyTuple(s) == <<"tuple", s>>
PyDict(s) == <<"dict", s>>         \* s: the <<key, value>> pairs in insertion order
PyObject(s) == <<"object", s>>     \* an instance of a user class
Raise(kind) == <<"raise", kind>>   \* the call raised `kind` instead of returning

TypeOf(obj) == obj[1]
Payload(obj) == obj[2]

-----------------------------------------------------------------------------
(* The codec, vaults.py:66-97 *)

\* what msgpack.packb can represent (anything else raises TypeError)
RECURSIVE Packable(_)
Packable(obj) ==
    CASE TypeOf(obj) \in {"none", "bool", "int", "float", "str", "bytes"} -> TRUE
      [] TypeOf(obj) \in {"list", "tuple"} ->
            \A i \in DOMAIN Payload(obj) : Packable(Payload(obj)[i])
      [] TypeOf(obj) = "dict" ->
            \A i \in DOMAIN Payload(obj) :
                Packable(Payload(obj)[i][1]) /\ Packable(Payload(obj)[i][2])
      [] OTHER -> FALSE

\* msgpack.packb(obj, use_bin_type=True), as <<format, payload>>: msgpack has one
\* array format, so a tuple and a list with the same elements pack to the same bytes
RECURSIVE packb(_)
packb(obj) ==
    CASE TypeOf(obj) = "none" -> <<"nil">>
      [] TypeOf(obj) = "bool" -> <<"true/false", Payload(obj)>>
      [] TypeOf(obj) = "int" -> <<"fixint", Payload(obj)>>
      [] TypeOf(obj) = "float" -> <<"float64", Payload(obj)>>
      [] TypeOf(obj) = "str" -> <<"fixstr", Payload(obj)>>
      [] TypeOf(obj) = "bytes" -> <<"bin8", Payload(obj)>>
      [] TypeOf(obj) \in {"list", "tuple"} ->
            <<"fixarray", [i \in DOMAIN Payload(obj) |-> packb(Payload(obj)[i])]>>
      [] TypeOf(obj) = "dict" ->
            <<"fixmap", [i \in DOMAIN Payload(obj) |->
                            <<packb(Payload(obj)[i][1]), packb(Payload(obj)[i][2])>>]>>

\* faulty variant of unpackb: raw=False left out, str comes back as bytes
RECURSIVE unpackb_raw(_)
unpackb_raw(p) ==
    CASE p[1] = "nil" -> PyNone
      [] p[1] = "true/false" -> PyBool(p[2])
      [] p[1] = "fixint" -> PyInt(p[2])
      [] p[1] = "float64" -> PyFloat(p[2])
      [] p[1] = "fixstr" -> PyBytes(p[2])
      [] p[1] = "bin8" -> PyBytes(p[2])
      [] p[1] = "fixarray" -> PyList([i \in DOMAIN p[2] |-> unpackb_raw(p[2][i])])
      [] p[1] = "fixmap" ->
            PyDict([i \in DOMAIN p[2] |->
                        <<unpackb_raw(p[2][i][1]), unpackb_raw(p[2][i][2])>>])

\* msgpack.unpackb(data, raw=False): every array comes back as a list
RECURSIVE unpackb(_)
unpackb(p) ==
    CASE p[1] = "nil" -> PyNone
      [] p[1] = "true/false" -> PyBool(p[2])
      [] p[1] = "fixint" -> PyInt(p[2])
      [] p[1] = "float64" -> PyFloat(p[2])
      [] p[1] = "fixstr" -> PyStr(p[2])
      [] p[1] = "bin8" -> PyBytes(p[2])
      [] p[1] = "fixarray" -> PyList([i \in DOMAIN p[2] |-> unpackb(p[2][i])])
      [] p[1] = "fixmap" ->
            PyDict([i \in DOMAIN p[2] |-> <<unpackb(p[2][i][1]), unpackb(p[2][i][2])>>])

\* pickle.dumps / pickle.loads, as <<opcode, argument>>: the type is kept
RECURSIVE pickle_dumps(_)
pickle_dumps(obj) ==
    CASE TypeOf(obj) = "none" -> <<"NONE">>
      [] TypeOf(obj) = "bool" -> <<"NEWTRUE/NEWFALSE", Payload(obj)>>
      [] TypeOf(obj) = "int" -> <<"BININT", Payload(obj)>>
      [] TypeOf(obj) = "float" -> <<"BINFLOAT", Payload(obj)>>
      [] TypeOf(obj) = "str" -> <<"BINUNICODE", Payload(obj)>>
      [] TypeOf(obj) = "bytes" -> <<"BINBYTES", Payload(obj)>>
      [] TypeOf(obj) = "list" ->
            <<"LIST", [i \in DOMAIN Payload(obj) |-> pickle_dumps(Payload(obj)[i])]>>
      [] TypeOf(obj) = "tuple" ->
            <<"TUPLE", [i \in DOMAIN Payload(obj) |-> pickle_dumps(Payload(obj)[i])]>>
      [] TypeOf(obj) = "dict" ->
            <<"DICT", [i \in DOMAIN Payload(obj) |->
                        <<pickle_dumps(Payload(obj)[i][1]), pickle_dumps(Payload(obj)[i][2])>>]>>
      [] TypeOf(obj) = "object" -> <<"NEWOBJ", Payload(obj)>>

RECURSIVE pickle_loads(_)
pickle_loads(p) ==
    CASE p[1] = "NONE" -> PyNone
      [] p[1] = "NEWTRUE/NEWFALSE" -> PyBool(p[2])
      [] p[1] = "BININT" -> PyInt(p[2])
      [] p[1] = "BINFLOAT" -> PyFloat(p[2])
      [] p[1] = "BINUNICODE" -> PyStr(p[2])
      [] p[1] = "BINBYTES" -> PyBytes(p[2])
      [] p[1] = "LIST" -> PyList([i \in DOMAIN p[2] |-> pickle_loads(p[2][i])])
      [] p[1] = "TUPLE" -> PyTuple([i \in DOMAIN p[2] |-> pickle_loads(p[2][i])])
      [] p[1] = "DICT" ->
            PyDict([i \in DOMAIN p[2] |->
                        <<pickle_loads(p[2][i][1]), pickle_loads(p[2][i][2])>>])
      [] p[1] = "NEWOBJ" -> PyObject(p[2])

NotPacked == <<"None">>     \* _try_msgpack_serialize returned None

_try_msgpack_serialize(obj) ==
    IF ~MSGPACK_AVAILABLE THEN NotPacked
    ELSE IF Packable(obj) THEN packb(obj)
    ELSE NotPacked

\* bytes are modelled as <<marker byte, payload>>; b'' is <<>>
_serialize(obj) ==
    LET packed == _try_msgpack_serialize(obj)
    IN  IF packed # NotPacked THEN <<"M", packed>>
        ELSE <<"P", pickle_dumps(obj)>>

_deserialize(data) ==
    IF data = <<>> THEN PyNone
    ELSE LET marker == data[1]
             result == CASE marker = "M" ->
                              IF ~MSGPACK_AVAILABLE THEN Raise("RuntimeError")
                              ELSE unpackb(data[2])
                         [] marker = "P" -> pickle_loads(data[2])
                         [] OTHER -> Raise("ValueError")
         IN  IF TypeOf(result) = "tuple" THEN PyList(Payload(result)) ELSE result

-----------------------------------------------------------------------------
(* The inputs the callers draw from *)

KeyA == PyStr("a")
KeyInt == PyInt(7)
KeyTuple == PyTuple(<<PyInt(1), PyInt(2)>>)
KeyList == PyList(<<PyInt(1), PyInt(2)>>)   \* packs to the bytes of KeyTuple, pickles to others
Keys == {KeyA, KeyInt, KeyTuple}

VInt == PyInt(42)
VFloat == PyFloat("3.14159")
VStr == PyStr("value")
VBool == PyBool(TRUE)
VBytes == PyBytes(<<0, 255>>)
VList == PyList(<<PyInt(1), PyList(<<PyInt(2), PyInt(3)>>)>>)
VDict == PyDict(<< <<PyStr("nested"), PyDict(<< <<PyStr("k"), PyInt(1)>> >>)>> >>)
VTuple == PyTuple(<<PyInt(1), PyInt(2), PyInt(3)>>)
VNestedTuple == PyList(<<PyInt(1), PyTuple(<<PyInt(2)>>)>>)
VObject == PyObject("Point")

\* every value shape, written in SpecShapes
Shapes == {VInt, VFloat, VStr, VBool, PyNone, VBytes, VList, VDict, VTuple,
           VNestedTuple, VObject}
\* the values written under every key in Spec
Values == {VInt, PyNone}
BulkValues == {VInt}
Defaults == {PyNone, PyStr("default")}

-----------------------------------------------------------------------------
(* The SQL statements, vaults.py:160-443 *)

EmptyTable == [sk \in {} |-> <<>>]

\* faulty variant of InsertOrReplace: INSERT OR IGNORE, a row in conflict is kept
InsertOrIgnore(rows, sk, sv) ==
    [x \in DOMAIN rows \cup {sk} |-> IF x \in DOMAIN rows THEN rows[x] ELSE sv]

\* faulty variant of InsertOrReplace: a row in conflict is deleted, the new one not inserted
InsertOrDelete(rows, sk, sv) ==
    IF sk \in DOMAIN rows THEN [x \in DOMAIN rows \ {sk} |-> rows[x]]
    ELSE [x \in DOMAIN rows \cup {sk} |-> IF x = sk THEN sv ELSE rows[x]]

\* INSERT OR REPLACE INTO dict (key, value) VALUES (?, ?)
InsertOrReplace(rows, sk, sv) ==
    [x \in DOMAIN rows \cup {sk} |-> IF x = sk THEN sv ELSE rows[x]]

\* faulty variant of DeleteWhereKey: the WHERE clause left out
DeleteWhereKey_nowhere(rows, sk) == [x \in {} |-> rows[x]]

\* DELETE FROM dict WHERE key = ?
DeleteWhereKey(rows, sk) == [x \in DOMAIN rows \ {sk} |-> rows[x]]

\* SELECT ... FROM dict WHERE key = ? ; cursor.fetchone() is not None
HasRow(rows, sk) == sk \in DOMAIN rows

\* faulty variant of DeleteAll: no row is deleted
DeleteAll_none(rows) == rows

\* DELETE FROM dict
DeleteAll(rows) == EmptyTable

\* SELECT ... FROM dict WHERE key IN (?, ...): the keys of the matching rows
SelectWhereKeyIn(rows, sks) == {sk \in DOMAIN rows : \E i \in DOMAIN sks : sks[i] = sk}

\* DELETE FROM dict WHERE key IN (?, ...)
DeleteWhereKeyIn(rows, sks) ==
    [x \in {sk \in DOMAIN rows : \A i \in DOMAIN sks : sks[i] # sk} |-> rows[x]]

\* SELECT COUNT(*) FROM dict WHERE key IN (?, ...)
CountWhereKeyIn(rows, sks) == Cardinality(SelectWhereKeyIn(rows, sks))

\* faulty variant of executemany: only the last of the n rows is written
RECURSIVE executemany_last(_, _, _)
executemany_last(rows, items, n) ==
    IF n = 0 THEN rows
    ELSE InsertOrReplace(rows, items[n][1], items[n][2])

\* cursor.executemany("INSERT OR REPLACE ...", items) on a connection whose
\* isolation_level is None (vaults.py:145): no transaction is opened, every row
\* is its own autocommitted statement. The rows after the first n rows of items.
RECURSIVE executemany(_, _, _)
executemany(rows, items, n) ==
    IF n = 0 THEN rows
    ELSE InsertOrReplace(executemany(rows, items, n - 1), items[n][1], items[n][2])

-----------------------------------------------------------------------------
(* History: what the callers wrote, as Python values *)

NoMap == [k \in {} |-> PyNone]

\* key now holds value; a key with the same bytes is the same row
Wrote(w, key, value) ==
    [k \in {k2 \in DOMAIN w : _serialize(k2) # _serialize(key)} \cup {key} |->
        IF k = key THEN value ELSE w[k]]

\* the row of key is gone
Removed(w, key) ==
    [k \in {k2 \in DOMAIN w : _serialize(k2) # _serialize(key)} |-> w[k]]

\* the rows of these serialized keys are gone
RemovedAll(w, sks) ==
    [k \in {k2 \in DOMAIN w : \A i \in DOMAIN sks : sks[i] # _serialize(k2)} |-> w[k]]

RECURSIVE WroteMany(_, _, _)
WroteMany(w, items, n) ==
    IF n = 0 THEN w
    ELSE Wrote(WroteMany(w, items, n - 1), items[n][1], items[n][2])

-----------------------------------------------------------------------------
(* One caller: every method of Vault is one action.  `fail` is the number of
   the statement of the call at which the backing engine raises sqlite3.Error
   (0: it does not).  On a closed connection the first statement raises. *)

Range(s) == {s[i] : i \in DOMAIN s}

\* faulty variant of BackendFailure: statements on a closed connection are served
BackendFailure_served(fail, n) == fail \in 0..n

\* the engine may raise at any of the n statements of a call; it does at the
\* first when the connection is closed ("Cannot operate on a closed database")
BackendFailure(fail, n) ==
    /\ fail \in 0..n
    /\ (n > 0 /\ ~connection_open) => fail = 1

\* hash(obj) succeeds (obj can be a key of a Python dict)
RECURSIVE Hashable(_)
Hashable(obj) ==
    CASE TypeOf(obj) \in {"list", "dict"} -> FALSE
      [] TypeOf(obj) = "tuple" -> \A i \in DOMAIN Payload(obj) : Hashable(Payload(obj)[i])
      [] OTHER -> TRUE

\* a completed call: its name and arguments, how it ended (res: "return" or the
\* exception raised), what it returned, and the rows, the writes and the
\* existence of the file before it
Call(op, key, value, keys, items, res, ret, retMap, fail) ==
    [op |-> op, key |-> key, value |-> value, keys |-> keys, items |-> items,
     res |-> res, ret |-> ret, retMap |-> retMap, fail |-> fail,
     pre |-> dict, was |-> written, existed |-> path_exists]

\* the arguments of put_many: the pairs of a Python dict, in insertion order
Mappings ==
    UNION {{m \in [1..n -> Keys \X BulkValues] :
                \A i, j \in 1..n : i # j => m[i][1] # m[j][1]} : n \in 0..MaxBatch}

\* the arguments of get_many: lists of keys, repeats allowed
KeyLists == UNION {[1..n -> Keys] : n \in 0..MaxBatch}

\* Vault._put, vaults.py:180-190, through _execute_with_lock, vaults.py:174-178:
\* for the single caller the lock is free, taken and released around the statement
_put(key, value, fail) ==
    /\ BackendFailure(fail, 1)
    /\ dict' = IF fail = 0
               THEN InsertOrReplace(dict, _serialize(key), _serialize(value))
               ELSE dict
    /\ written' = IF fail = 0 THEN Wrote(written, key, value) ELSE written
    /\ last' = Call("put", key, value, <<>>, <<>>,
                    IF fail = 0 THEN "return" ELSE "VaultError", PyNone, NoMap, fail)
    /\ UNCHANGED <<path_exists, connection_open>>

\* Vault._get, vaults.py:196-201: the stored value, None when there is no row
_get(key) ==
    LET serialized_key == _serialize(key)
    IN  IF HasRow(dict, serialized_key) THEN _deserialize(dict[serialized_key]) ELSE PyNone

\* faulty variant of get: the default is stored when the key has no row
get_storing(key, default, fail) ==
    LET row == HasRow(dict, _serialize(key))
        stored == fail = 0 /\ ~row
    IN  /\ BackendFailure(fail, 1)
        /\ dict' = IF stored THEN InsertOrReplace(dict, _serialize(key), _serialize(default))
                   ELSE dict
        /\ written' = IF stored THEN Wrote(written, key, default) ELSE written
        /\ last' = IF fail # 0
                   THEN Call("get", key, default, <<>>, <<>>, "VaultError", PyNone, NoMap, fail)
                   ELSE LET value == _get(key)
                        IN  Call("get", key, default, <<>>, <<>>, "return",
                                 IF value # PyNone THEN value ELSE default, NoMap, fail)
        /\ UNCHANGED <<path_exists, connection_open>>

\* Vault.get, vaults.py:203-210
get(key, default, fail) ==
    /\ BackendFailure(fail, 1)
    /\ last' = IF fail # 0
               THEN Call("get", key, default, <<>>, <<>>, "VaultError", PyNone, NoMap, fail)
               ELSE LET value == _get(key)
                    IN  Call("get", key, default, <<>>, <<>>, "return",
                             IF value # PyNone THEN value ELSE default, NoMap, fail)
    /\ UNCHANGED <<storeVars, written>>

\* Vault.__getitem__, vaults.py:413-417
__getitem__(key, fail) ==
    /\ BackendFailure(fail, 1)
    /\ last' = IF fail # 0
               THEN Call("__getitem__", key, PyNone, <<>>, <<>>, "VaultError", PyNone, NoMap, fail)
               ELSE LET value == _get(key)
                    IN  IF value = PyNone
                        THEN Call("__getitem__", key, PyNone, <<>>, <<>>, "KeyError", PyNone, NoMap, fail)
                        ELSE Call("__getitem__", key, PyNone, <<>>, <<>>, "return", value, NoMap, fail)
    /\ UNCHANGED <<storeVars, written>>

\* faulty variant of pop: the DELETE left out, the value is returned and the row stays
pop_nodelete(key, fail) ==
    LET serialized_key == _serialize(key)
        row == HasRow(dict, serialized_key)
    IN  /\ BackendFailure(fail, 1)
        /\ last' = Call("pop", key, PyNone, <<>>, <<>>,
                        IF fail = 0 THEN "return" ELSE "VaultError",
                        IF fail = 0 /\ row THEN _deserialize(dict[serialized_key]) ELSE PyNone,
                        NoMap, fail)
        /\ UNCHANGED <<storeVars, written>>

\* Vault._pop / Vault.pop, vaults.py:212-227: SELECT, then DELETE when a row was found
pop(key, fail) ==
    LET serialized_key == _serialize(key)
        row == HasRow(dict, serialized_key)
    IN  /\ BackendFailure(fail, IF row THEN 2 ELSE 1)
        /\ dict' = IF fail = 0 /\ row THEN DeleteWhereKey(dict, serialized_key) ELSE dict
        /\ written' = IF fail = 0 /\ row THEN Removed(written, key) ELSE written
        /\ last' = Call("pop", key, PyNone, <<>>, <<>>,
                        IF fail = 0 THEN "return" ELSE "VaultError",
                        IF fail = 0 /\ row THEN _deserialize(dict[serialized_key]) ELSE PyNone,
                        NoMap, fail)
        /\ UNCHANGED <<path_exists, connection_open>>

\* Vault.__delitem__, vaults.py:422-428: SELECT 1, KeyError when no row, then DELETE
__delitem__(key, fail) ==
    LET serialized_key == _serialize(key)
        row == HasRow(dict, serialized_key)
    IN  /\ BackendFailure(fail, IF row THEN 2 ELSE 1)
        /\ dict' = IF fail = 0 /\ row THEN DeleteWhereKey(dict, serialized_key) ELSE dict
        /\ written' = IF fail = 0 /\ row THEN Removed(written, key) ELSE written
        /\ last' = Call("__delitem__", key, PyNone, <<>>, <<>>,
                        IF fail # 0 THEN "VaultError"
                        ELSE IF ~row THEN "KeyError" ELSE "return",
                        PyNone, NoMap, fail)
        /\ UNCHANGED <<path_exists, connection_open>>

\* Vault.__contains__, vaults.py:430-433
__contains__(key, fail) ==
    /\ BackendFailure(fail, 1)
    /\ last' = Call("__contains__", key, PyNone, <<>>, <<>>,
                    IF fail = 0 THEN "return" ELSE "VaultError",
                    IF fail = 0 THEN PyBool(HasRow(dict, _serialize(key))) ELSE PyNone,
                    NoMap, fail)
    /\ UNCHANGED <<storeVars, written>>

\* Vault.__len__, vaults.py:435-437
__len__(fail) ==
    /\ BackendFailure(fail, 1)
    /\ last' = Call("__len__", PyNone, PyNone, <<>>, <<>>,
                    IF fail = 0 THEN "return" ELSE "VaultError",
                    IF fail = 0 THEN PyInt(Cardinality(DOMAIN dict)) ELSE PyNone,
                    NoMap, fail)
    /\ UNCHANGED <<storeVars, written>>

\* Vault.__bool__, vaults.py:442-444
__bool__(fail) ==
    /\ BackendFailure(fail, 1)
    /\ last' = Call("__bool__", PyNone, PyNone, <<>>, <<>>,
                    IF fail = 0 THEN "return" ELSE "VaultError",
                    IF fail = 0 THEN PyBool(dict # EmptyTable) ELSE PyNone,
                    NoMap, fail)
    /\ UNCHANGED <<storeVars, written>>

\* Vault.clear, vaults.py:394-396
clear(fail) ==
    /\ BackendFailure(fail, 1)
    /\ dict' = IF fail = 0 THEN DeleteAll(dict) ELSE dict
    /\ written' = IF fail = 0 THEN NoMap ELSE written
    /\ last' = Call("clear", PyNone, PyNone, <<>>, <<>>,
                    IF fail = 0 THEN "return" ELSE "VaultError", PyNone, NoMap, fail)
    /\ UNCHANGED <<path_exists, connection_open>>

\* faulty variant of put_many: the `if not data` guard left out, executemany runs
\* on the empty list too
put_many_noguard(items, fail) ==
    LET serialized_items == [i \in DOMAIN items |->
                                <<_serialize(items[i][1]), _serialize(items[i][2])>>]
        n == Len(serialized_items)
        done == IF fail = 0 THEN n ELSE fail - 1
    IN  /\ BackendFailure(fail, IF n = 0 THEN 1 ELSE n)
        /\ dict' = executemany(dict, serialized_items, done)
        /\ written' = WroteMany(written, items, done)
        /\ last' = Call("put_many", PyNone, PyNone, <<>>, items,
                        IF fail = 0 THEN "return" ELSE "sqlite3.Error",
                        IF fail = 0 THEN PyInt(n) ELSE PyNone, NoMap, fail)
        /\ UNCHANGED <<path_exists, connection_open>>

\* Vault.put_many, vaults.py:229-266: no statement for an empty mapping; otherwise
\* one executemany, outside _execute, so what the engine raises is not wrapped
put_many(items, fail) ==
    LET serialized_items == [i \in DOMAIN items |->
                                <<_serialize(items[i][1]), _serialize(items[i][2])>>]
        n == Len(serialized_items)
        done == IF fail = 0 THEN n ELSE fail - 1
    IN  /\ BackendFailure(fail, n)
        /\ dict' = executemany(dict, serialized_items, done)
        /\ written' = WroteMany(written, items, done)
        /\ last' = Call("put_many", PyNone, PyNone, <<>>, items,
                        IF fail = 0 THEN "return" ELSE "sqlite3.Error",
                        IF fail = 0 THEN PyInt(n) ELSE PyNone, NoMap, fail)
        /\ UNCHANGED <<path_exists, connection_open>>

\* the dict comprehension of get_many, vaults.py:297, over the rows found
ResultDict(rows, found) ==
    [k \in {_deserialize(sk) : sk \in found} |->
        _deserialize(rows[CHOOSE sk \in found : _deserialize(sk) = k])]

\* Vault.get_many, vaults.py:268-299: {} for no keys; otherwise one SELECT ... IN
\* and a Python dict keyed by the deserialized keys of the rows found
get_many(keys, fail) ==
    LET serialized_keys == [i \in DOMAIN keys |-> _serialize(keys[i])]
        found == SelectWhereKeyIn(dict, serialized_keys)
    IN  /\ BackendFailure(fail, IF keys = <<>> THEN 0 ELSE 1)
        /\ last' = IF fail # 0
                   THEN Call("get_many", PyNone, PyNone, keys, <<>>, "VaultError", PyNone, NoMap, fail)
                   ELSE IF \E sk \in found : ~Hashable(_deserialize(sk))
                   THEN Call("get_many", PyNone, PyNone, keys, <<>>, "TypeError", PyNone, NoMap, fail)
                   ELSE Call("get_many", PyNone, PyNone, keys, <<>>, "return", PyNone,
                             ResultDict(dict, found), fail)
        /\ UNCHANGED <<storeVars, written>>

\* list(found.keys()), vaults.py:327: the keys of a Python dict as a sequence
RECURSIVE KeysOf(_)
KeysOf(S) ==
    IF S = {} THEN <<>>
    ELSE LET k == CHOOSE x \in S : TRUE IN <<k>> \o KeysOf(S \ {k})

\* Vault.pop_many, vaults.py:301-336: {} for no keys; get_many(keys); {} when it
\* found nothing; otherwise one DELETE ... IN over the re-serialized keys found
pop_many(keys, fail) ==
    LET serialized_lookup == [i \in DOMAIN keys |-> _serialize(keys[i])]
        rows_found == SelectWhereKeyIn(dict, serialized_lookup)
        unhashable == \E sk \in rows_found : ~Hashable(_deserialize(sk))
        found == IF unhashable THEN NoMap ELSE ResultDict(dict, rows_found)
        found_keys == KeysOf(DOMAIN found)
        serialized_keys == [i \in DOMAIN found_keys |-> _serialize(found_keys[i])]
        statements == IF keys = <<>> THEN 0
                      ELSE IF unhashable \/ rows_found = {} THEN 1 ELSE 2
        deleted == fail = 0 /\ statements = 2
    IN  /\ BackendFailure(fail, statements)
        /\ dict' = IF deleted THEN DeleteWhereKeyIn(dict, serialized_keys) ELSE dict
        /\ written' = IF deleted THEN RemovedAll(written, serialized_keys) ELSE written
        /\ last' = IF fail # 0
                   THEN Call("pop_many", PyNone, PyNone, keys, <<>>, "VaultError", PyNone, NoMap, fail)
                   ELSE IF unhashable
                   THEN Call("pop_many", PyNone, PyNone, keys, <<>>, "TypeError", PyNone, NoMap, fail)
                   ELSE Call("pop_many", PyNone, PyNone, keys, <<>>, "return", PyNone, found, fail)
        /\ UNCHANGED <<path_exists, connection_open>>

\* Vault.has_keys, vaults.py:338-370: True for no keys; otherwise the COUNT(*) of
\* the rows whose key is IN the list compared with the length of the list
has_keys(keys, fail) ==
    LET serialized_keys == [i \in DOMAIN keys |-> _serialize(keys[i])]
        count == CountWhereKeyIn(dict, serialized_keys)
        all_present == count = Len(keys)
    IN  /\ BackendFailure(fail, IF keys = <<>> THEN 0 ELSE 1)
        /\ last' = IF fail # 0
                   THEN Call("has_keys", PyNone, PyNone, keys, <<>>, "VaultError", PyNone, NoMap, fail)
                   ELSE Call("has_keys", PyNone, PyNone, keys, <<>>, "return",
                             IF keys = <<>> THEN PyBool(TRUE) ELSE PyBool(all_present),
                             NoMap, fail)
        /\ UNCHANGED <<storeVars, written>>

NoRow == <<"no row">>     \* cursor.fetchone() returned None

\* faulty variant of popitem: the DELETE left out, the pair is returned and the row stays
popitem_keep(row, fail) ==
    /\ IF dict = EmptyTable THEN row = NoRow ELSE row \in DOMAIN dict
    /\ BackendFailure(fail, 1)
    /\ last' = IF fail # 0 \/ row = NoRow
               THEN Call("popitem", PyNone, PyNone, <<>>, <<>>, "VaultError", PyNone, NoMap, fail)
               ELSE Call("popitem", PyNone, PyNone, <<>>, <<>>, "return",
                         PyTuple(<<_deserialize(row), _deserialize(dict[row])>>), NoMap, fail)
    /\ UNCHANGED <<storeVars, written>>

\* Vault.popitem, vaults.py:372-382: SELECT ... LIMIT 1 gives `row`, any row of
\* the table (NoRow when it is empty); VaultError when there is none, otherwise
\* DELETE by the stored key bytes and return (key, value)
popitem(row, fail) ==
    /\ IF dict = EmptyTable THEN row = NoRow ELSE row \in DOMAIN dict
    /\ BackendFailure(fail, IF row = NoRow THEN 1 ELSE 2)
    /\ dict' = IF fail = 0 /\ row # NoRow THEN DeleteWhereKey(dict, row) ELSE dict
    /\ written' = IF fail = 0 /\ row # NoRow THEN RemovedAll(written, <<row>>) ELSE written
    /\ last' = IF fail # 0 \/ row = NoRow
               THEN Call("popitem", PyNone, PyNone, <<>>, <<>>, "VaultError", PyNone, NoMap, fail)
               ELSE Call("popitem", PyNone, PyNone, <<>>, <<>>, "return",
                         PyTuple(<<_deserialize(row), _deserialize(dict[row])>>), NoMap, fail)
    /\ UNCHANGED <<path_exists, connection_open>>

\* Vault.setdefault, vaults.py:465-472: SELECT; the stored value when there is a
\* row, otherwise _put(key, default) and default itself
setdefault(key, default, fail) ==
    LET serialized_key == _serialize(key)
        row == HasRow(dict, serialized_key)
        stored == fail = 0 /\ ~row
    IN  /\ BackendFailure(fail, IF row THEN 1 ELSE 2)
        /\ dict' = IF stored THEN InsertOrReplace(dict, serialized_key, _serialize(default))
                   ELSE dict
        /\ written' = IF stored THEN Wrote(written, key, default) ELSE written
        /\ last' = Call("setdefault", key, default, <<>>, <<>>,
                        IF fail = 0 THEN "return" ELSE "VaultError",
                        IF fail # 0 THEN PyNone
                        ELSE IF row THEN _deserialize(dict[serialized_key]) ELSE default,
                        NoMap, fail)
        /\ UNCHANGED <<path_exists, connection_open>>

\* faulty variant of UpsertEach: the loop stops after the first pair
RECURSIVE UpsertEach_first(_, _, _)
UpsertEach_first(rows, pairs, n) ==
    IF n = 0 THEN rows
    ELSE InsertOrReplace(rows, _serialize(pairs[1][1]), _serialize(pairs[1][2]))

\* the loop of Vault.update, vaults.py:462-463: self._put(key, value) for the
\* first n pairs of other.items()
RECURSIVE UpsertEach(_, _, _)
UpsertEach(rows, pairs, n) ==
    IF n = 0 THEN rows
    ELSE InsertOrReplace(UpsertEach(rows, pairs, n - 1),
                         _serialize(pairs[n][1]), _serialize(pairs[n][2]))

\* Vault.update, vaults.py:461-463: one _put per pair; a VaultError ends the
\* loop with the pairs before it stored
update(pairs, fail) ==
    LET n == Len(pairs)
        done == IF fail = 0 THEN n ELSE fail - 1
    IN  /\ BackendFailure(fail, n)
        /\ dict' = UpsertEach(dict, pairs, done)
        /\ written' = WroteMany(written, pairs, done)
        /\ last' = Call("update", PyNone, PyNone, <<>>, pairs,
                        IF fail = 0 THEN "return" ELSE "VaultError", PyNone, NoMap, fail)
        /\ UNCHANGED <<path_exists, connection_open>>

\* Vault.__enter__, vaults.py:474-475: return self
__enter__ ==
    /\ last' = Call("__enter__", PyNone, PyNone, <<>>, <<>>, "return", PyNone, NoMap, 0)
    /\ UNCHANGED <<storeVars, written>>

\* faulty variant of __exit__: the connection is closed after the commit
__exit___close(fail) ==
    /\ BackendFailure(fail, 1)
    /\ connection_open' = FALSE
    /\ last' = Call("__exit__", PyNone, PyNone, <<>>, <<>>,
                    IF fail = 0 THEN "return" ELSE "sqlite3.Error", PyNone, NoMap, fail)
    /\ UNCHANGED <<dict, path_exists, written>>

\* Vault.__exit__, vaults.py:477-478: connection.commit(), outside _execute
__exit__(fail) ==
    /\ BackendFailure(fail, 1)
    /\ last' = Call("__exit__", PyNone, PyNone, <<>>, <<>>,
                    IF fail = 0 THEN "return" ELSE "sqlite3.Error", PyNone, NoMap, fail)
    /\ UNCHANGED <<storeVars, written>>

\* faulty variant of delete_vault: the connection is closed, the file is not removed
delete_vault_keep ==
    /\ connection_open' = FALSE
    /\ UNCHANGED <<path_exists, dict, written>>
    /\ last' = Call("delete_vault", PyNone, PyNone, <<>>, <<>>, "return", PyNone, NoMap, 0)

\* Vault.delete_vault, vaults.py:384-392: close the connection, remove the file
delete_vault ==
    /\ connection_open' = FALSE
    /\ path_exists' = FALSE
    /\ dict' = EmptyTable
    /\ written' = NoMap
    /\ last' = Call("delete_vault", PyNone, PyNone, <<>>, <<>>, "return", PyNone, NoMap, 0)

\* faulty variant of __init__: to_create is not looked at, sqlite3.connect always runs
__init___connect(to_create) ==
    /\ connection_open' = TRUE
    /\ path_exists' = TRUE
    /\ dict' = IF path_exists THEN dict ELSE EmptyTable
    /\ written' = IF path_exists THEN written ELSE NoMap
    /\ last' = Call("__init__", PyNone, PyBool(to_create), <<>>, <<>>, "return",
                    PyNone, NoMap, 0)

\* Vault.__init__, vaults.py:125-155: the caller opens the store again under the
\* same name; the file is connected to when it exists or to_create is set
\* (sqlite3.connect creates a missing file), and _create_table runs on a new file
__init__(to_create) ==
    /\ IF path_exists \/ to_create
       THEN /\ connection_open' = TRUE
            /\ path_exists' = TRUE
            /\ dict' = IF path_exists THEN dict ELSE EmptyTable
            /\ written' = IF path_exists THEN written ELSE NoMap
            /\ last' = Call("__init__", PyNone, PyBool(to_create), <<>>, <<>>, "return",
                            PyNone, NoMap, 0)
       ELSE /\ UNCHANGED <<storeVars, written>>
            /\ last' = Call("__init__", PyNone, PyBool(to_create), <<>>, <<>>, "VaultError",
                            PyNone, NoMap, 0)

-----------------------------------------------------------------------------
(* The single caller *)

NoThread == 0
NoCall == <<"none", "none", PyNone, PyNone>>    \* no call was made before the last one
\* the caller holds no listing
NoListing == [kind |-> "none", list |-> <<>>, pos |-> 0, visited |-> <<>>,
              at |-> EmptyTable, was |-> NoMap]

Threads == 1..NumThreads

callerFrame == <<MSGPACK_AVAILABLE, thread_safe, before, it, worker, pc, cur, progress,
                 lock_owner, executing, raced, errors>>

IdleThreads ==
    /\ worker = [t \in Threads |-> "none"]
    /\ pc = [t \in Threads |-> "done"]
    /\ cur = [t \in Threads |-> <<>>]
    /\ progress = [t \in Threads |-> 0]
    /\ lock_owner = NoThread
    /\ executing = {}
    /\ raced = {}
    /\ errors = [t \in Threads |-> 0]

\* Vault(name) on a name with no file yet: to_create=True, thread_safe=False
Opened ==
    /\ MSGPACK_AVAILABLE \in BOOLEAN
    /\ dict = EmptyTable
    /\ path_exists = TRUE
    /\ connection_open = TRUE
    /\ written = NoMap
    /\ last = [op |-> "__init__", key |-> PyNone, value |-> PyBool(TRUE), keys |-> <<>>,
               items |-> <<>>, res |-> "return", ret |-> PyNone, retMap |-> NoMap,
               fail |-> 0, pre |-> EmptyTable, was |-> NoMap, existed |-> FALSE]
    /\ before = NoCall
    /\ it = NoListing

Init == Opened /\ thread_safe = FALSE /\ IdleThreads

Put(K, V) == \E key \in K, value \in V, fail \in 0..1 :
                _put(key, value, fail) /\ UNCHANGED callerFrame
Get(K) == \E key \in K, default \in Defaults, fail \in 0..1 :
                get(key, default, fail) /\ UNCHANGED callerFrame
GetItem(K) == \E key \in K, fail \in 0..1 : __getitem__(key, fail) /\ UNCHANGED callerFrame
Pop(K) == \E key \in K, fail \in 0..2 : pop(key, fail) /\ UNCHANGED callerFrame
DelItem == \E key \in Keys, fail \in 0..2 : __delitem__(key, fail) /\ UNCHANGED callerFrame
Contains == \E key \in Keys, fail \in 0..1 : __contains__(key, fail) /\ UNCHANGED callerFrame
Length == \E fail \in 0..1 : __len__(fail) /\ UNCHANGED callerFrame
Clear == \E fail \in 0..1 : clear(fail) /\ UNCHANGED callerFrame
PutMany == \E items \in Mappings, fail \in 0..MaxBatch :
            put_many(items, fail) /\ UNCHANGED callerFrame
GetMany == \E keys \in KeyLists, fail \in 0..1 : get_many(keys, fail) /\ UNCHANGED callerFrame
Exit == \E fail \in 0..1 : __exit__(fail) /\ UNCHANGED callerFrame
DeleteVault == delete_vault /\ UNCHANGED callerFrame
Open == \E to_create \in BOOLEAN : __init__(to_create) /\ UNCHANGED callerFrame

Next ==
    \/ Put(Keys, Values)
    \/ Get(Keys)
    \/ GetItem(Keys)
    \/ Pop(Keys)
    \/ DelItem
    \/ Contains
    \/ Length
    \/ Clear
    \/ PutMany
    \/ GetMany
    \/ Exit
    \/ DeleteVault
    \/ Open

Spec == Init /\ [][Next]_vars

\* every value shape, under two keys
ShapeKeys == {KeyA, KeyTuple}

NextShapes ==
    \/ Put(ShapeKeys, Shapes)
    \/ Get(ShapeKeys)
    \/ GetItem(ShapeKeys)
    \/ Pop(ShapeKeys)

SpecShapes == Init /\ [][NextShapes]_vars

\* the bulk removals and checks, over the three keys
PopMany == \E keys \in KeyLists, fail \in 0..2 : pop_many(keys, fail) /\ UNCHANGED callerFrame
HasKeys == \E keys \in KeyLists, fail \in 0..1 : has_keys(keys, fail) /\ UNCHANGED callerFrame
PopItem == \E row \in DOMAIN dict \cup {NoRow}, fail \in 0..2 :
                popitem(row, fail) /\ UNCHANGED callerFrame

NextBulk ==
    \/ Put(Keys, Values)
    \/ PopMany
    \/ HasKeys
    \/ PopItem
    \/ DeleteVault
    \/ Open

SpecBulk == Init /\ [][NextBulk]_vars

\* the bulk operations on no input and on one key, on a live and on a deleted store
ShortLists == {<<>>} \cup {<<k>> : k \in Keys}
ShortMappings == {<<>>} \cup {<< <<k, v>> >> : k \in Keys, v \in BulkValues}

ShortPutMany == \E items \in ShortMappings, fail \in 0..1 :
                    put_many(items, fail) /\ UNCHANGED callerFrame
ShortGetMany == \E keys \in ShortLists, fail \in 0..1 :
                    get_many(keys, fail) /\ UNCHANGED callerFrame
ShortPopMany == \E keys \in ShortLists, fail \in 0..2 :
                    pop_many(keys, fail) /\ UNCHANGED callerFrame
ShortHasKeys == \E keys \in ShortLists, fail \in 0..1 :
                    has_keys(keys, fail) /\ UNCHANGED callerFrame

NextShortBulk ==
    \/ Put(Keys, Values)
    \/ ShortPutMany
    \/ ShortGetMany
    \/ ShortPopMany
    \/ ShortHasKeys
    \/ DeleteVault
    \/ Open

SpecShortBulk == Init /\ [][NextShortBulk]_vars

\* the codec applied to values and to byte sequences
Codables == Shapes \cup Keys

\* the payloads the two codecs produce for these values
Payloads == {packb(obj) : obj \in {o \in Codables : Packable(o)}}
                \cup {pickle_dumps(obj) : obj \in Codables}

\* marker bytes that are neither b'M' nor b'P'
UnknownMarkers == {"X", "m", "J"}

\* byte sequences handed to _deserialize: b'', well-formed data of each codec,
\* and payloads behind an unknown marker
ByteStrings ==
    {<<>>}
        \cup {<<"M", packb(obj)>> : obj \in {o \in Codables : Packable(o)}}
        \cup {<<"P", pickle_dumps(obj)>> : obj \in Codables}
        \cup {<<marker, payload>> : marker \in UnknownMarkers, payload \in Payloads}

\* _serialize(obj) called
Serialize ==
    /\ \E obj \in Codables :
            last' = Call("_serialize", PyNone, obj, <<>>, <<>>, "return", _serialize(obj), NoMap, 0)
    /\ UNCHANGED <<storeVars, written, callerFrame>>

\* _deserialize(data) called: it returns a value or raises
Deserialize ==
    /\ \E data \in ByteStrings :
            LET result == _deserialize(data)
            IN  last' = IF TypeOf(result) = "raise"
                        THEN Call("_deserialize", PyNone, data, <<>>, <<>>, Payload(result),
                                  PyNone, NoMap, 0)
                        ELSE Call("_deserialize", PyNone, data, <<>>, <<>>, "return",
                                  result, NoMap, 0)
    /\ UNCHANGED <<storeVars, written, callerFrame>>

NextCodec ==
    \/ Serialize
    \/ Deserialize
    \/ Put(Keys, Values)

SpecCodec == Init /\ [][NextCodec]_vars

\* the rest of the dict protocol
SetDefault == \E key \in Keys, default \in Defaults, fail \in 0..2 :
                setdefault(key, default, fail) /\ UNCHANGED callerFrame
Update == \E pairs \in Mappings, fail \in 0..MaxBatch :
                update(pairs, fail) /\ UNCHANGED callerFrame

NextProtocol ==
    \/ Put(Keys, Values)
    \/ SetDefault
    \/ Update
    \/ GetItem(Keys)
    \/ DelItem

SpecProtocol == Init /\ [][NextProtocol]_vars

\* a caller whose previous call is remembered; two of its keys pack to the same
\* bytes under msgpack
SessionKeys == {KeyA, KeyTuple, KeyList}

sessionFrame == <<MSGPACK_AVAILABLE, thread_safe, it, worker, pc, cur, progress,
                  lock_owner, executing, raced, errors>>

Remember ==
    /\ before' = <<last.op, last.res, last.key, last.value>>
    /\ UNCHANGED sessionFrame

SessionPut == \E key \in SessionKeys, value \in Values, fail \in 0..1 :
                _put(key, value, fail) /\ Remember
SessionGet == \E key \in SessionKeys, fail \in 0..1 : get(key, PyNone, fail) /\ Remember
SessionClear == \E fail \in 0..1 : clear(fail) /\ Remember
SessionEnter == __enter__ /\ Remember
SessionExit == \E fail \in 0..1 : __exit__(fail) /\ Remember
SessionOpen == \E to_create \in BOOLEAN : __init__(to_create) /\ Remember
SessionDeleteVault == delete_vault /\ Remember

NextSession ==
    \/ SessionPut
    \/ SessionGet
    \/ SessionClear
    \/ SessionEnter
    \/ SessionExit
    \/ SessionOpen
    \/ SessionDeleteVault

SpecSession == Init /\ [][NextSession]_vars

-----------------------------------------------------------------------------
(* Listings, vaults.py:398-459: every one is cursor.fetchall() turned into a
   Python list before the method returns.  A SELECT without ORDER BY yields the
   rows in an order of the engine's choosing: `order`. *)

Orders(rows) ==
    {o \in [1..Cardinality(DOMAIN rows) -> DOMAIN rows] :
        \A i, j \in DOMAIN o : i # j => o[i] # o[j]}

\* Vault._list_keys, vaults.py:398-401
_list_keys(rows, order) == [i \in DOMAIN order |-> _deserialize(order[i])]

\* the list comprehension of Vault.values, vaults.py:455-456
values_list(rows, order) == [i \in DOMAIN order |-> _deserialize(rows[order[i]])]

\* Vault.get_all_items, vaults.py:408-411
get_all_items(rows, order) ==
    [i \in DOMAIN order |-> PyTuple(<<_deserialize(order[i]), _deserialize(rows[order[i]])>>)]

\* the caller now holds `list`, taken from the rows as they are
Listing(kind, list) ==
    [kind |-> kind, list |-> list, pos |-> 0, visited |-> <<>>, at |-> dict, was |-> written]

\* a listing method: one SELECT through _execute, the list on success
listing(kind, list, fail) ==
    /\ BackendFailure(fail, 1)
    /\ it' = IF fail = 0 THEN Listing(kind, list) ELSE it
    /\ last' = Call(kind, PyNone, PyNone, <<>>, <<>>,
                    IF fail = 0 THEN "return" ELSE "VaultError",
                    IF fail = 0 THEN PyList(list) ELSE PyNone, NoMap, fail)
    /\ UNCHANGED <<storeVars, written>>

\* Vault.keys, vaults.py:450-451
keys(order, fail) == listing("keys", _list_keys(dict, order), fail)

\* Vault.values, vaults.py:453-456
values(order, fail) == listing("values", values_list(dict, order), fail)

\* Vault.items, vaults.py:458-459
items(order, fail) == listing("items", get_all_items(dict, order), fail)

\* Vault.__iter__, vaults.py:439-440: iter(self._list_keys())
__iter__(order, fail) == listing("__iter__", _list_keys(dict, order), fail)

\* faulty variant of __next__: a live cursor, the next key is read from the rows
\* as they are now (None when every key of the table was visited)
__next___live(held, rows) ==
    LET left == {_deserialize(sk) : sk \in DOMAIN rows} \ Range(held.visited)
    IN  IF left = {} THEN PyNone ELSE CHOOSE k \in left : TRUE

\* next() on the iterator of the list: the element at its position
__next__(held, rows) == held.list[held.pos + 1]

listingFrame == <<MSGPACK_AVAILABLE, thread_safe, before, worker, pc, cur, progress,
                  lock_owner, executing, raced, errors>>

ListedKeys == {KeyA, KeyTuple}

ListKeys == \E order \in Orders(dict), fail \in 0..1 : keys(order, fail) /\ UNCHANGED listingFrame
ListValues == \E order \in Orders(dict), fail \in 0..1 :
                values(order, fail) /\ UNCHANGED listingFrame
ListItems == \E order \in Orders(dict), fail \in 0..1 : items(order, fail) /\ UNCHANGED listingFrame
Iter == \E order \in Orders(dict), fail \in 0..1 : __iter__(order, fail) /\ UNCHANGED listingFrame

\* the for loop takes the next key; the store is not read
IterNext ==
    /\ it.kind = "__iter__" /\ it.pos < Len(it.list)
    /\ it' = [it EXCEPT !.pos = @ + 1, !.visited = Append(@, __next__(it, dict))]
    /\ UNCHANGED <<storeVars, written, last, listingFrame>>

\* every read operation, on a store written by put and closed by delete_vault
Bool == \E fail \in 0..1 : __bool__(fail) /\ UNCHANGED callerFrame

NextReads ==
    \/ Put(ListedKeys, BulkValues)
    \/ DeleteVault
    \/ Get(ListedKeys)
    \/ GetItem(ListedKeys)
    \/ Contains
    \/ Length
    \/ Bool
    \/ ListKeys
    \/ ListValues
    \/ ListItems
    \/ Iter
    \/ IterNext
    \/ ShortGetMany
    \/ ShortHasKeys

SpecReads == Init /\ [][NextReads]_vars

NextIter ==
    \/ ListKeys
    \/ ListValues
    \/ ListItems
    \/ Iter
    \/ IterNext
    \/ Put(ListedKeys, Values)
    \/ Pop(ListedKeys)
    \/ Clear

SpecIter == Init /\ [][NextIter]_vars

-----------------------------------------------------------------------------
(* Threads sharing one handle: the workers of tests.py, one step per entry to
   and exit from a statement on the connection.  Two statements that overlap on
   the one connection race: each of them may complete or raise. *)

KeyOf(i) == PyStr(<<"key_", i>>)        \* f'key_{i}'
ValueOf(i) == PyStr(<<"value_", i>>)    \* f'value_{i}'

\* the n-th i of range(start, end) of thread t: the ranges are disjoint
Nth(t, n) == (t - 1) * RangeSize + n

\* worker: tests.py:299-304; worker_put: tests.py:525-530; worker_get: tests.py:532-536
Workers == {"worker", "worker_put", "worker_get"}

threadFrame == <<MSGPACK_AVAILABLE, thread_safe, path_exists, connection_open,
                 written, last, before, it, worker>>

\* SELECT COUNT(*) FROM dict
Count(rows) == Cardinality(DOMAIN rows)

\* faulty variant of acquire: the lock is never taken
acquire_nolock(t) == UNCHANGED lock_owner

\* `with self._lock:` entered, vaults.py:175-176 and 251-252; no lock when
\* the handle was not opened thread_safe
acquire(t) ==
    IF thread_safe
    THEN lock_owner = NoThread /\ lock_owner' = t
    ELSE UNCHANGED lock_owner

\* faulty variant of release: the lock stays with the thread that took it
release_never(t) == UNCHANGED lock_owner

\* `with self._lock:` left, by return or by exception
release(t) ==
    IF thread_safe THEN lock_owner' = NoThread ELSE UNCHANGED lock_owner

\* cursor.execute / cursor.executemany entered on the shared connection
enter(t) ==
    /\ executing' = executing \cup {t}
    /\ raced' = IF executing # {} THEN raced \cup executing \cup {t} ELSE raced

\* ... and left
leave(t) ==
    /\ executing' = executing \ {t}
    /\ raced' = raced \ {t}

\* a statement completes unless it raced, when it may also raise
Outcome(t, ok) == ok \in BOOLEAN /\ (~ok => t \in raced)

\* worker: v[f'key_{i}'] = f'value_{i}' -> _put -> _execute_with_lock
SetItemEnter(t) ==
    /\ worker[t] = "worker" /\ pc[t] = "call"
    /\ acquire(t)
    /\ enter(t)
    /\ pc' = [pc EXCEPT ![t] = "execute"]
    /\ UNCHANGED <<dict, cur, progress, errors, threadFrame>>

\* the INSERT OR REPLACE ends: the row is written, or VaultError ends the worker
SetItemLeave(t) ==
    /\ worker[t] = "worker" /\ pc[t] = "execute"
    /\ \E ok \in BOOLEAN :
        /\ Outcome(t, ok)
        /\ LET i == Nth(t, progress[t] + 1)
           IN  dict' = IF ok THEN InsertOrReplace(dict, _serialize(KeyOf(i)),
                                                  _serialize(ValueOf(i)))
                       ELSE dict
        /\ progress' = [progress EXCEPT ![t] = IF ok THEN @ + 1 ELSE @]
        /\ errors' = [errors EXCEPT ![t] = IF ok THEN @ ELSE @ + 1]
        /\ pc' = [pc EXCEPT ![t] = IF ok /\ progress[t] + 1 < RangeSize
                                   THEN "call" ELSE "done"]
    /\ leave(t)
    /\ release(t)
    /\ UNCHANGED <<cur, threadFrame>>

\* worker_put: v.put_many(data), vaults.py:251-257
PutManyEnter(t) ==
    /\ worker[t] = "worker_put" /\ pc[t] = "call"
    /\ acquire(t)
    /\ enter(t)
    /\ pc' = [pc EXCEPT ![t] = "executemany"]
    /\ UNCHANGED <<dict, cur, progress, errors, threadFrame>>

\* executemany writes its next row; after the last one, or on an error, the
\* statement and the lock are left
PutManyRow(t) ==
    /\ worker[t] = "worker_put" /\ pc[t] = "executemany"
    /\ \E ok \in BOOLEAN :
        /\ Outcome(t, ok)
        /\ LET i == Nth(t, progress[t] + 1)
           IN  dict' = IF ok THEN InsertOrReplace(dict, _serialize(KeyOf(i)),
                                                  _serialize(ValueOf(i)))
                       ELSE dict
        /\ progress' = [progress EXCEPT ![t] = IF ok THEN @ + 1 ELSE @]
        /\ errors' = [errors EXCEPT ![t] = IF ok THEN @ ELSE @ + 1]
        /\ IF ok /\ progress[t] + 1 < RangeSize
           THEN UNCHANGED <<pc, executing, raced, lock_owner>>
           ELSE pc' = [pc EXCEPT ![t] = "done"] /\ leave(t) /\ release(t)
    /\ UNCHANGED <<cur, threadFrame>>

\* worker_get: v.get_many(keys) -> _execute, vaults.py:292-295: no lock is taken
GetManyEnter(t) ==
    /\ worker[t] = "worker_get" /\ pc[t] = "call"
    /\ \E r \in Threads : cur' = [cur EXCEPT ![t] = [i \in 1..RangeSize |-> KeyOf(Nth(r, i))]]
    /\ enter(t)
    /\ pc' = [pc EXCEPT ![t] = "execute"]
    /\ UNCHANGED <<dict, progress, errors, lock_owner, threadFrame>>

GetManyLeave(t) ==
    /\ worker[t] = "worker_get" /\ pc[t] = "execute"
    /\ \E ok \in BOOLEAN :
        /\ Outcome(t, ok)
        /\ errors' = [errors EXCEPT ![t] = IF ok THEN @ ELSE @ + 1]
    /\ progress' = [progress EXCEPT ![t] = @ + 1]
    /\ pc' = [pc EXCEPT ![t] = "done"]
    /\ leave(t)
    /\ UNCHANGED <<dict, cur, lock_owner, threadFrame>>

\* Vault(name, thread_safe=...) shared by started threads
InitThreads ==
    /\ Opened
    /\ thread_safe \in BOOLEAN
    /\ worker \in [Threads -> Workers]
    /\ pc = [t \in Threads |-> "call"]
    /\ cur = [t \in Threads |-> <<>>]
    /\ progress = [t \in Threads |-> 0]
    /\ lock_owner = NoThread
    /\ executing = {}
    /\ raced = {}
    /\ errors = [t \in Threads |-> 0]

NextThreads ==
    \E t \in Threads :
        \/ SetItemEnter(t)
        \/ SetItemLeave(t)
        \/ PutManyEnter(t)
        \/ PutManyRow(t)
        \/ GetManyEnter(t)
        \/ GetManyLeave(t)

SpecThreads == InitThreads /\ [][NextThreads]_vars

\* the steps of one thread; a started thread that can take a step is scheduled
ThreadStep(t) ==
    \/ SetItemEnter(t)
    \/ SetItemLeave(t)
    \/ PutManyEnter(t)
    \/ PutManyRow(t)
    \/ GetManyEnter(t)
    \/ GetManyLeave(t)

SpecThreadsFair ==
    InitThreads /\ [][NextThreads]_vars /\ \A t \in Threads : WF_vars(ThreadStep(t))

-----------------------------------------------------------------------------
(* Threads removing entries through one shared handle.  _pop, popitem and
   pop_many call _execute directly (vaults.py:215-219, 374-379, 322-333): no
   lock is taken whatever thread_safe is.  Each statement is one step;
   cur[t] is the row the thread selected and, once done, was returned. *)

Removers == {"pop", "popitem", "pop_many"}

\* Vault._pop: SELECT value FROM dict WHERE key = ?; None when there is no row
PopSelect(t) ==
    LET serialized_key == _serialize(KeyA)
        row == HasRow(dict, serialized_key)
    IN  /\ worker[t] = "pop" /\ pc[t] = "call"
        /\ cur' = [cur EXCEPT ![t] = IF row THEN <<serialized_key, dict[serialized_key]>>
                                      ELSE NoRow]
        /\ pc' = [pc EXCEPT ![t] = IF row THEN "selected" ELSE "done"]
        /\ UNCHANGED <<dict, progress, errors, lock_owner, executing, raced, threadFrame>>

\* Vault._pop: DELETE FROM dict WHERE key = ?; the value selected is returned
PopDelete(t) ==
    /\ worker[t] = "pop" /\ pc[t] = "selected"
    /\ dict' = DeleteWhereKey(dict, cur[t][1])
    /\ pc' = [pc EXCEPT ![t] = "done"]
    /\ progress' = [progress EXCEPT ![t] = @ + 1]
    /\ UNCHANGED <<cur, errors, lock_owner, executing, raced, threadFrame>>

\* Vault.popitem: SELECT key, value FROM dict LIMIT 1; VaultError on no row
PopItemSelect(t) ==
    /\ worker[t] = "popitem" /\ pc[t] = "call"
    /\ IF dict = EmptyTable
       THEN /\ cur' = [cur EXCEPT ![t] = NoRow]
            /\ errors' = [errors EXCEPT ![t] = @ + 1]
            /\ pc' = [pc EXCEPT ![t] = "done"]
       ELSE /\ \E sk \in DOMAIN dict : cur' = [cur EXCEPT ![t] = <<sk, dict[sk]>>]
            /\ pc' = [pc EXCEPT ![t] = "selected"]
            /\ UNCHANGED errors
    /\ UNCHANGED <<dict, progress, lock_owner, executing, raced, threadFrame>>

\* Vault.popitem: DELETE FROM dict WHERE key = row[0]; (key, value) is returned
PopItemDelete(t) ==
    /\ worker[t] = "popitem" /\ pc[t] = "selected"
    /\ dict' = DeleteWhereKey(dict, cur[t][1])
    /\ pc' = [pc EXCEPT ![t] = "done"]
    /\ progress' = [progress EXCEPT ![t] = @ + 1]
    /\ UNCHANGED <<cur, errors, lock_owner, executing, raced, threadFrame>>

\* Vault.pop_many([key]): found = self.get_many(keys); {} when nothing was found
PopManySelect(t) ==
    LET serialized_keys == <<_serialize(KeyA)>>
        found == SelectWhereKeyIn(dict, serialized_keys)
    IN  /\ worker[t] = "pop_many" /\ pc[t] = "call"
        /\ cur' = [cur EXCEPT ![t] = IF found = {} THEN NoRow
                                      ELSE <<serialized_keys[1], dict[serialized_keys[1]]>>]
        /\ pc' = [pc EXCEPT ![t] = IF found = {} THEN "done" ELSE "selected"]
        /\ UNCHANGED <<dict, progress, errors, lock_owner, executing, raced, threadFrame>>

\* Vault.pop_many: DELETE FROM dict WHERE key IN (...); found is returned
PopManyDelete(t) ==
    /\ worker[t] = "pop_many" /\ pc[t] = "selected"
    /\ dict' = DeleteWhereKeyIn(dict, <<cur[t][1]>>)
    /\ pc' = [pc EXCEPT ![t] = "done"]
    /\ progress' = [progress EXCEPT ![t] = @ + 1]
    /\ UNCHANGED <<cur, errors, lock_owner, executing, raced, threadFrame>>

\* v = Vault(name, thread_safe=...); v[key] = value; then the threads are started
InitRemovers ==
    /\ MSGPACK_AVAILABLE \in BOOLEAN
    /\ thread_safe \in BOOLEAN
    /\ dict = InsertOrReplace(EmptyTable, _serialize(KeyA), _serialize(VInt))
    /\ path_exists = TRUE
    /\ connection_open = TRUE
    /\ written = Wrote(NoMap, KeyA, VInt)
    /\ last = [op |-> "put", key |-> KeyA, value |-> VInt, keys |-> <<>>,
               items |-> <<>>, res |-> "return", ret |-> PyNone, retMap |-> NoMap,
               fail |-> 0, pre |-> EmptyTable, was |-> NoMap, existed |-> TRUE]
    /\ before = NoCall
    /\ it = NoListing
    /\ worker \in [Threads -> Removers]
    /\ pc = [t \in Threads |-> "call"]
    /\ cur = [t \in Threads |-> NoRow]
    /\ progress = [t \in Threads |-> 0]
    /\ lock_owner = NoThread
    /\ executing = {}
    /\ raced = {}
    /\ errors = [t \in Threads |-> 0]

NextRemovers ==
    \E t \in Threads :
        \/ PopSelect(t)
        \/ PopDelete(t)
        \/ PopItemSelect(t)
        \/ PopItemDelete(t)
        \/ PopManySelect(t)
        \/ PopManyDelete(t)

SpecRemovers == InitRemovers /\ [][NextRemovers]_vars

-----------------------------------------------------------------------------
(* The claims *)

\* obj with every tuple replaced by the list of the same elements
RECURSIVE AsLists(_)
AsLists(obj) ==
    CASE TypeOf(obj) \in {"list", "tuple"} ->
            PyList([i \in DOMAIN Payload(obj) |-> AsLists(Payload(obj)[i])])
      [] TypeOf(obj) = "dict" ->
            PyDict([i \in DOMAIN Payload(obj) |->
                        <<AsLists(Payload(obj)[i][1]), AsLists(Payload(obj)[i][2])>>])
      [] OTHER -> obj

\* got is what a caller may get back for a stored value: equal to it, except
\* that a tuple may have become a list of the same elements
ReadsBackAs(got, stored) ==
    /\ AsLists(got) = AsLists(stored)
    /\ AsLists(stored) = stored => got = stored

\* the last call found a row for its key
Present == HasRow(last.pre, _serialize(last.key))

\* every row but that of the last call's key is as before the call
OthersUnchanged ==
    /\ DOMAIN dict \ {_serialize(last.key)} = DOMAIN last.pre \ {_serialize(last.key)}
    /\ \A sk \in DOMAIN dict \ {_serialize(last.key)} : dict[sk] = last.pre[sk]

InsertersOnly == \A t \in Threads : worker[t] \in {"worker", "worker_put"}
AllDone == \A t \in Threads : pc[t] = "done"

\* C1: with thread-safety enabled, a thread executing a statement against the
\* connection holds the lock, so at most one thread is executing at a time.
C1_LockHeldWhileExecuting ==
    thread_safe =>
        /\ \A t \in executing : lock_owner = t
        /\ Cardinality(executing) <= 1

\* C2: with thread-safety enabled, threads that only insert disjoint key ranges
\* (by index-style assignment or by put_many) raise no error under any
\* interleaving and, once all have finished, length() is the sum of their counts.
C2_ConcurrentInserts ==
    (thread_safe /\ InsertersOnly) =>
        /\ \A t \in Threads : errors[t] = 0
        /\ AllDone => Count(dict) = NumThreads * RangeSize

C2_Witness ==
    /\ thread_safe /\ AllDone
    /\ worker[1] = "worker" /\ worker[2] = "worker_put"
    /\ Count(dict) = NumThreads * RangeSize

C4_GetDefault ==
    (last.op = "get" /\ last.res = "return") =>
        IF Present
        THEN ReadsBackAs(last.ret, written[last.key])
        ELSE last.ret = last.value

\* C5: vault[key] raises KeyError if and only if key is absent; for a present
\* key it returns the stored value.
C5_GetItemStrict ==
    (last.op = "__getitem__" /\ last.fail = 0) =>
        IF Present
        THEN last.res = "return" /\ ReadsBackAs(last.ret, written[last.key])
        ELSE last.res = "KeyError"

\* C6: del vault[key] on an absent key raises KeyError and leaves the entries
\* unchanged; on a present key it removes that entry, leaves every other entry
\* unchanged and raises nothing.
C6_DelItemStrict ==
    (last.op = "__delitem__" /\ last.fail = 0) =>
        IF Present
        THEN /\ last.res = "return"
             /\ ~HasRow(dict, _serialize(last.key))
             /\ OthersUnchanged
        ELSE /\ last.res = "KeyError"
             /\ dict = last.pre

C6_Witness ==
    /\ last.op = "__delitem__" /\ last.fail = 0 /\ Present
    /\ last.res = "return"
    /\ Count(last.pre) = 2 /\ Count(dict) = 1

\* C7: pop(key) on an absent key returns None without raising and leaves the
\* store unchanged; on a present key it returns the stored value and removes
\* that entry (a following get(key) returns None, length() is one less),
\* leaving every other entry unchanged.
C7_PopLenient ==
    (last.op = "pop" /\ last.fail = 0) =>
        /\ last.res = "return"
        /\ IF Present
           THEN /\ ReadsBackAs(last.ret, last.was[last.key])
                /\ _get(last.key) = PyNone
                /\ Count(dict) = Count(last.pre) - 1
                /\ OthersUnchanged
           ELSE /\ last.ret = PyNone
                /\ dict = last.pre

C7_Witness ==
    /\ last.op = "pop" /\ last.fail = 0 /\ Present
    /\ last.ret = VInt
    /\ Count(dict) = 1

\* C8: put_many(mapping) is atomic: if the engine fails while the batch is
\* written none of the pairs is stored and the entries are as before the call;
\* otherwise every pair is stored.
C8_PutManyAtomic ==
    last.op = "put_many" =>
        IF last.fail # 0
        THEN dict = last.pre
        ELSE \A i \in DOMAIN last.items :
                /\ HasRow(dict, _serialize(last.items[i][1]))
                /\ _get(last.items[i][1]) = last.items[i][2]

\* C9: an operation that fails because the engine raised surfaces the failure
\* as VaultError.
C9_BackendFailureIsVaultError ==
    last.fail # 0 => last.res = "VaultError"

\* C10: get_many(keys) returns without error a mapping whose key set is the
\* keys that are in the store, each with its stored value, and leaves the store
\* unchanged.
C10_GetMany ==
    (last.op = "get_many" /\ last.fail = 0) =>
        /\ last.res = "return"
        /\ DOMAIN last.retMap = {k \in Range(last.keys) : HasRow(last.pre, _serialize(k))}
        /\ \A k \in DOMAIN last.retMap : ReadsBackAs(last.retMap[k], written[k])
        /\ dict = last.pre

\* C13: opening with to_create false when the file does not exist raises
\* VaultError and creates no file; with to_create true on an absent file it
\* creates the file and an empty table; opening an existing file, with either
\* flag, succeeds and keeps every entry stored in it.
C13_Open ==
    last.op = "__init__" =>
        IF last.existed
        THEN last.res = "return" /\ path_exists /\ dict = last.pre
        ELSE IF last.value = PyBool(TRUE)
        THEN last.res = "return" /\ path_exists /\ dict = EmptyTable
        ELSE last.res = "VaultError" /\ ~path_exists

C13_Witness ==
    /\ last.op = "__init__" /\ ~last.existed /\ last.value = PyBool(FALSE)
    /\ last.res = "VaultError" /\ ~path_exists

\* C14: after delete_vault() returns the file does not exist; delete_vault()
\* when the file is already gone raises nothing and leaves it absent.
C14_DeleteVault ==
    last.op = "delete_vault" => (last.res = "return" /\ ~path_exists)

C14_Witness ==
    /\ last.op = "delete_vault" /\ ~last.existed
    /\ last.res = "return" /\ ~path_exists

\* the rows the last call's list of keys names
Named == {sk \in DOMAIN last.pre : \E i \in DOMAIN last.keys : _serialize(last.keys[i]) = sk}

\* every row outside the set gone is as before the last call, and those are all the rows
RowsLeft(gone) ==
    /\ DOMAIN dict = DOMAIN last.pre \ gone
    /\ \A sk \in DOMAIN dict : dict[sk] = last.pre[sk]

\* C11: pop_many(keys) removes exactly the entries whose keys are both in keys
\* and in the store, returns a mapping of exactly those entries with their stored
\* values and leaves every other entry untouched; length() has decreased by the
\* size of the returned mapping.
C11_PopMany ==
    (last.op = "pop_many" /\ last.fail = 0) =>
        /\ last.res = "return"
        /\ RowsLeft(Named)
        /\ {_serialize(k) : k \in DOMAIN last.retMap} = Named
        /\ \A k \in DOMAIN last.retMap :
                \E stored \in DOMAIN last.was :
                    /\ _serialize(stored) = _serialize(k)
                    /\ ReadsBackAs(last.retMap[k], last.was[stored])
        /\ Count(dict) = Count(last.pre) - Cardinality(DOMAIN last.retMap)

\* C12: has_keys(keys) returns True if every key of the list is in the store and
\* False otherwise, also for a list that names a key more than once; True for
\* the empty list.
C12_HasKeys ==
    (last.op = "has_keys" /\ last.fail = 0) =>
        /\ last.res = "return"
        /\ last.ret = PyBool(\A k \in Range(last.keys) : HasRow(last.pre, _serialize(k)))

\* C16: popitem() on an empty store raises the empty-store error and changes
\* nothing; otherwise it returns a (key, value) pair that was an entry, removes
\* exactly that entry, so length() is one less, and leaves the others unchanged.
C16_PopItem ==
    (last.op = "popitem" /\ last.fail = 0) =>
        IF last.pre = EmptyTable
        THEN last.res = "VaultError" /\ dict = last.pre
        ELSE /\ last.res = "return"
             /\ \E k \in DOMAIN last.was :
                    /\ ReadsBackAs(last.ret[2][1], k)
                    /\ ReadsBackAs(last.ret[2][2], last.was[k])
                    /\ RowsLeft({_serialize(k)})
             /\ Count(dict) = Count(last.pre) - 1

C16_Witness ==
    /\ last.op = "popitem" /\ last.fail = 0 /\ last.res = "return"
    /\ last.ret = PyTuple(<<PyList(<<PyInt(1), PyInt(2)>>), VInt>>)
    /\ Count(last.pre) = 2 /\ Count(dict) = 1

\* the call before the last one was op and it returned
After(op) == before[1] = op /\ before[2] = "return"

\* C15: after clear() the length is 0 and no key is contained, and the store
\* stays usable: a following put(key, value) succeeds, get(key) then returns
\* value and the length is 1.
C15_ClearThenPut ==
    /\ (last.op = "clear" /\ last.res = "return") =>
            /\ Count(dict) = 0
            /\ \A k \in SessionKeys : ~HasRow(dict, _serialize(k))
            /\ connection_open
    /\ (After("clear") /\ last.op = "put" /\ last.fail = 0) =>
            /\ last.res = "return"
            /\ ReadsBackAs(_get(last.key), last.value)
            /\ Count(dict) = 1

C15_Witness ==
    /\ After("clear") /\ last.op = "put" /\ last.res = "return"
    /\ last.value = VInt /\ _get(last.key) = VInt
    /\ Count(dict) = 1

\* C17: put is idempotent: put(key, value) on a store in which key already holds
\* value (as after the first such put) leaves length(), get(key) and every other
\* entry as they were.
C17_PutIdempotent ==
    (/\ last.op = "put" /\ last.fail = 0
     /\ HasRow(last.pre, _serialize(last.key))
     /\ last.pre[_serialize(last.key)] = _serialize(last.value))
        => /\ last.res = "return"
           /\ dict = last.pre
           /\ Count(dict) = Count(last.pre)
           /\ ReadsBackAs(_get(last.key), last.value)

C17_Witness ==
    /\ before = <<"put", "return", KeyTuple, VInt>>
    /\ last.op = "put" /\ last.res = "return" /\ last.key = KeyTuple /\ last.value = VInt
    /\ Count(dict) = 2 /\ dict = last.pre

\* C18: the entries form a proper mapping over the encoded keys: length() is the
\* number of distinct keys stored; put(key, v2) on a key holding v1 replaces the
\* value in place (get returns v2, length() unchanged); a put to a different key
\* changes no other key's value.
C18_ProperMapping ==
    /\ DOMAIN dict = {_serialize(k) : k \in DOMAIN written}
    /\ Count(dict) = Cardinality({_serialize(k) : k \in DOMAIN written})
    /\ (last.op = "put" /\ last.fail = 0) =>
            /\ ReadsBackAs(_get(last.key), last.value)
            /\ Count(dict) = IF Present THEN Count(last.pre) ELSE Count(last.pre) + 1
            /\ OthersUnchanged

C18_Witness ==
    /\ last.op = "put" /\ last.fail = 0 /\ Present
    /\ last.key = KeyA /\ last.was[KeyA] = PyNone /\ last.value = VInt
    /\ _get(KeyA) = VInt
    /\ Count(last.pre) = 2 /\ Count(dict) = 2

\* C19: leaving a with block commits and does not close the handle: the entries
\* written are in the file a second handle opened afterwards reads, and the
\* handle still serves operations after the block.
C19_ExitKeepsOpen ==
    /\ (last.op = "__exit__" /\ last.res = "return") =>
            /\ connection_open
            /\ dict = last.pre
    /\ (After("__exit__") /\ last.op = "__init__") =>
            /\ last.res = "return"
            /\ \A k \in DOMAIN written :
                    /\ HasRow(dict, _serialize(k))
                    /\ ReadsBackAs(_deserialize(dict[_serialize(k)]), written[k])
    /\ (After("__exit__") /\ last.op \in {"put", "get", "clear"} /\ last.fail = 0) =>
            last.res = "return"

C19_Witness ==
    /\ After("__exit__") /\ last.op = "__init__" /\ last.value = PyBool(FALSE)
    /\ last.res = "return"
    /\ DOMAIN written = {KeyA, KeyTuple}
    /\ Count(dict) = 2

\* element is what a listing of this kind shows for the entry key -> value
Shows(kind, element, key, value) ==
    CASE kind \in {"keys", "__iter__"} -> ReadsBackAs(element, key)
      [] kind = "values" -> ReadsBackAs(element, value)
      [] kind = "items" ->
            /\ TypeOf(element) = "tuple"
            /\ ReadsBackAs(Payload(element)[1], key)
            /\ ReadsBackAs(Payload(element)[2], value)

\* C20: keys(), values(), items() and iteration return a snapshot taken at call
\* time: the sequence held shows exactly the entries stored when the call was
\* made, each once, whatever was put, removed or cleared since, and the
\* iteration visits the keys of that sequence, in its order.
C20_Snapshot ==
    it.kind # "none" =>
        /\ Len(it.list) = Count(it.at)
        /\ \E f \in [DOMAIN it.list -> DOMAIN it.was] :
                /\ \A i, j \in DOMAIN f : i # j => f[i] # f[j]
                /\ \A i \in DOMAIN f : Shows(it.kind, it.list[i], f[i], it.was[f[i]])
        /\ it.visited = SubSeq(it.list, 1, it.pos)

C20_Witness ==
    /\ it.kind = "__iter__" /\ Len(it.list) = 2 /\ it.pos = 2
    /\ it.visited = it.list
    /\ Count(it.at) = 2 /\ dict = EmptyTable

\* C21: setdefault(key, default) on a present key returns the stored value and
\* leaves the store unchanged; on an absent key it stores default under key and
\* returns default, and vault[key] then returns default; no other entry changes.
C21_SetDefault ==
    (last.op = "setdefault" /\ last.fail = 0) =>
        /\ last.res = "return"
        /\ OthersUnchanged
        /\ IF Present
           THEN /\ ReadsBackAs(last.ret, last.was[last.key])
                /\ dict = last.pre
           ELSE /\ last.ret = last.value
                /\ HasRow(dict, _serialize(last.key))
                /\ _get(last.key) # PyNone
                /\ ReadsBackAs(_get(last.key), last.value)

\* the pairs of the last call's mapping, serialized as put_many does (vaults.py:249)
SerializedItems ==
    [i \in DOMAIN last.items |-> <<_serialize(last.items[i][1]), _serialize(last.items[i][2])>>]

\* the rows the last call's mapping names
Mapped == {_serialize(last.items[i][1]) : i \in DOMAIN last.items}

\* C24: when nothing fails, update(mapping) leaves the store with exactly the
\* entries put_many(mapping) leaves from the same starting state, which are
\* those of one put(k, v) per pair: every key of the mapping holds its value
\* and every other entry is as before.
C24_UpdateIsPutMany ==
    (last.op = "update" /\ last.fail = 0) =>
        /\ last.res = "return"
        /\ dict = executemany(last.pre, SerializedItems, Len(last.items))
        /\ DOMAIN dict = DOMAIN last.pre \cup Mapped
        /\ \A i \in DOMAIN last.items :
                dict[_serialize(last.items[i][1])] = _serialize(last.items[i][2])
        /\ \A sk \in DOMAIN dict \ Mapped : dict[sk] = last.pre[sk]

C24_Witness ==
    /\ last.op = "update" /\ last.fail = 0 /\ last.res = "return"
    /\ Len(last.items) = 2
    /\ Count(last.pre) = 2 /\ Count(dict) = 3
    /\ \E sk \in DOMAIN last.pre \cap Mapped : last.pre[sk] # dict[sk]

\* the last call was a bulk operation on empty input
EmptyBulkCall ==
    /\ last.op \in {"put_many", "get_many", "pop_many", "has_keys"}
    /\ last.items = <<>> /\ last.keys = <<>>

\* C22: bulk operations on empty input are no-ops with fixed results from any
\* store state: put_many({}) returns 0, get_many([]) and pop_many([]) return an
\* empty mapping, has_keys([]) returns True; entries and length() are unchanged.
C22_EmptyBulk ==
    EmptyBulkCall =>
        /\ last.res = "return"
        /\ CASE last.op = "put_many" -> last.ret = PyInt(0)
             [] last.op = "has_keys" -> last.ret = PyBool(TRUE)
             [] OTHER -> last.retMap = NoMap
        /\ dict = last.pre
        /\ Count(dict) = Count(last.pre)

C22_Witness ==
    /\ EmptyBulkCall /\ last.op = "put_many"
    /\ last.ret = PyInt(0)
    /\ Count(dict) = 2

\* C23: put_many(mapping) on a non-empty mapping, when the engine does not fail,
\* returns the number of pairs; every key of the mapping then holds the
\* mapping's value, every other entry is unchanged and length() is the number
\* of distinct keys of the old key set and the mapping's keys together.
C23_PutMany ==
    (last.op = "put_many" /\ last.items # <<>> /\ last.fail = 0) =>
        /\ last.res = "return"
        /\ last.ret = PyInt(Len(last.items))
        /\ \A i \in DOMAIN last.items :
                /\ HasRow(dict, _serialize(last.items[i][1]))
                /\ ReadsBackAs(_get(last.items[i][1]), last.items[i][2])
        /\ \A sk \in DOMAIN last.pre \ Mapped : HasRow(dict, sk) /\ dict[sk] = last.pre[sk]
        /\ Count(dict) = Cardinality(DOMAIN last.pre \cup Mapped)

C23_Witness ==
    /\ last.op = "put_many" /\ last.fail = 0 /\ Len(last.items) = 2
    /\ last.ret = PyInt(2)
    /\ Count(last.pre) = 2 /\ Count(dict) = 3
    /\ \E sk \in DOMAIN last.pre \cap Mapped : last.pre[sk] # dict[sk]

\* thread t is in a call that takes the lock and waits for another thread to release it
Blocked(t) ==
    /\ worker[t] \in {"worker", "worker_put"} /\ pc[t] = "call"
    /\ lock_owner \notin {NoThread, t}

\* C25: with thread-safety enabled the lock is released on every exit path of
\* an operation that took it: a thread that is not inside such an operation
\* does not hold the lock, whether its call returned or raised, and a thread
\* blocked on the lock eventually acquires it.
C25_LockReleased ==
    /\ [](\A t \in Threads : pc[t] \in {"call", "done"} => lock_owner # t)
    /\ \A t \in Threads : (thread_safe /\ Blocked(t)) ~> (lock_owner = t)

C25_Witness ==
    /\ thread_safe
    /\ worker[1] = "worker" /\ pc[1] = "done" /\ errors[1] > 0
    /\ lock_owner = NoThread

\* data begins with the marker of one of the two codecs
Tagged(data) == data # <<>> /\ data[1] \in {"M", "P"}

\* C26: every byte sequence the store writes, key or value, begins with the
\* one-byte tag of the codec that produced it, and decoding a byte sequence that
\* does not begin with a known tag, the empty one included, raises the format
\* error (ValueError) instead of returning a value.
C26_FormatTag ==
    /\ \A sk \in DOMAIN dict : Tagged(sk) /\ Tagged(dict[sk])
    /\ last.op = "_serialize" =>
            /\ Tagged(last.ret)
            /\ last.ret[1] = "M" <=> (MSGPACK_AVAILABLE /\ Packable(last.value))
            /\ last.ret[2] = IF last.ret[1] = "M" THEN packb(last.value)
                                                   ELSE pickle_dumps(last.value)
    /\ (last.op = "_deserialize" /\ ~Tagged(last.value)) => last.res = "ValueError"

\* the threads whose removal has returned the entry to its caller
Receivers == {t \in Threads : pc[t] = "done" /\ cur[t] # NoRow}

\* C27: with thread-safety enabled, removals are atomic with respect to each
\* other: the stored entry is returned to at most one of the threads that
\* concurrently call pop, popitem or pop_many, and once all have returned
\* exactly one of them has received it.
C27_RemovalsAtomic ==
    thread_safe =>
        /\ Cardinality(Receivers) <= 1
        /\ AllDone => Cardinality(Receivers) = 1

ReadOps == {"get", "__getitem__", "__contains__", "__len__", "__bool__", "keys", "values",
            "items", "__iter__", "get_many", "has_keys"}

\* C28: read operations never modify the store: after get, vault[key], in,
\* len, bool, keys/values/items, iteration, get_many and has_keys the entries
\* are exactly those before the call, whether it returned a value, returned a
\* default or raised.
C28_ReadsChangeNothing ==
    last.op \in ReadOps =>
        /\ dict = last.pre
        /\ written = last.was
        /\ path_exists = last.existed

C28_Witness ==
    /\ last.op = "get" /\ last.res = "return" /\ last.ret = PyStr("default")
    /\ ~HasRow(dict, _serialize(last.key))
    /\ Count(dict) = 1

\* the data operations of the single caller
DataOps == {"put", "get", "__getitem__", "pop", "__delitem__", "__contains__", "__len__",
            "clear", "put_many", "get_many"}

\* the last call was a data operation on a handle whose delete_vault() had returned
OnDeadHandle == ~connection_open /\ last.op \in DataOps

\* C29 as stated: once delete_vault() has returned, every later data operation
\* on the handle fails with an error rather than returning data, and the file
\* is not recreated.
C29_DeadHandle ==
    /\ OnDeadHandle => last.res \in {"VaultError", "sqlite3.Error"}
    /\ ~connection_open => ~path_exists

\* C29, amended: once delete_vault() has returned, every later data operation
\* that issues a statement (every one but a bulk operation on empty input,
\* which returns its fixed result) fails with an error, and the file is not
\* recreated.
C29_DeadHandleStatements ==
    /\ (OnDeadHandle /\ ~EmptyBulkCall) => last.res \in {"VaultError", "sqlite3.Error"}
    /\ (OnDeadHandle /\ EmptyBulkCall) => last.res = "return"
    /\ ~connection_open => ~path_exists

C29_Witness ==
    /\ OnDeadHandle /\ last.op = "get"
    /\ last.res = "VaultError"
    /\ ~path_exists /\ ~last.existed

=============================================================================
